---- MODULE Spec2Model ----
(***************************************************************************)
(* Model of the nd-import runner (internal/app/runner.go): the             *)
(* download -> extract -> prune -> merge pipeline of Execute, over an      *)
(* explicit file system.                                                   *)
(*                                                                         *)
(* Strings are sequences of one-character strings, so that filepath.Clean, *)
(* strings.HasPrefix, strings.ReplaceAll and the glob matcher are computed *)
(* the way the code computes them.  A file-system path is the sequence of  *)
(* its segments below the root "/".                                        *)
(***************************************************************************)
EXTENDS Integers, Sequences, FiniteSets, TLC

(***************************************************************************)
(* Strings                                                                 *)
(***************************************************************************)

\* The characters that occur in the model, in byte order (sort.Strings and
\* the directory order of filepath.WalkDir compare bytes).
Alphabet == <<" ", "*", ".", "/", "\\", "_", "a", "b", "c", "d", "e", "i", "l", "m", "p", "t", "x", "z">>

Ord(c) == CHOOSE i \in 1..Len(Alphabet) : Alphabet[i] = c

RECURSIVE StrLess(_, _)
StrLess(s, t) ==
    IF t = <<>> THEN FALSE
    ELSE IF s = <<>> THEN TRUE
    ELSE IF Head(s) = Head(t) THEN StrLess(Tail(s), Tail(t))
    ELSE Ord(Head(s)) < Ord(Head(t))

HasPrefix(s, p) == Len(s) >= Len(p) /\ SubSeq(s, 1, Len(p)) = p

Last(s) == s[Len(s)]

Front(s) == SubSeq(s, 1, Len(s) - 1)

\* strings.Split(s, "/"): the segments between separators, empty ones kept.
RECURSIVE Split(_)
Split(s) ==
    IF s = <<>> THEN << <<>> >>
    ELSE LET rest == Split(Tail(s)) IN
         IF Head(s) = "/" THEN << <<>> >> \o rest
         ELSE << <<Head(s)>> \o Head(rest) >> \o Tail(rest)

\* strings.Join(segs, "/")
RECURSIVE JoinSegs(_)
JoinSegs(segs) ==
    IF segs = <<>> THEN <<>>
    ELSE IF Len(segs) = 1 THEN segs[1]
    ELSE segs[1] \o <<"/">> \o JoinSegs(Tail(segs))

DotDot == <<".", ".">>

Dot == <<".">>

\* filepath.IsAbs on a Unix path.
IsAbs(s) == s # <<>> /\ s[1] = "/"

\* The segment pass of filepath.Clean: empty and "." segments are dropped, a
\* ".." removes the segment before it, and is kept only when there is none to
\* remove and the path is not rooted.
RECURSIVE CleanAcc(_, _, _)
CleanAcc(segs, out, rooted) ==
    IF segs = <<>> THEN out
    ELSE LET h == Head(segs) IN
         IF h = <<>> \/ h = Dot THEN CleanAcc(Tail(segs), out, rooted)
         ELSE IF h = DotDot
              THEN IF out # <<>> /\ Last(out) # DotDot
                   THEN CleanAcc(Tail(segs), Front(out), rooted)
                   ELSE IF rooted THEN CleanAcc(Tail(segs), out, rooted)
                        ELSE CleanAcc(Tail(segs), Append(out, h), rooted)
              ELSE CleanAcc(Tail(segs), Append(out, h), rooted)

\* filepath.Clean
Clean(s) ==
    LET rooted == IsAbs(s)
        segs   == CleanAcc(Split(s), <<>>, rooted)
    IN  IF segs = <<>> THEN (IF rooted THEN <<"/">> ELSE Dot)
        ELSE (IF rooted THEN <<"/">> ELSE <<>>) \o JoinSegs(segs)

\* filepath.Join(dir, rel) for an absolute directory given by its segments:
\* the two are concatenated with a separator and the result is cleaned.
JoinPath(dir, rel) == CleanAcc(dir \o Split(rel), <<>>, TRUE)

\* strings.TrimSpace
RECURSIVE TrimLeft(_)
TrimLeft(s) == IF s # <<>> /\ Head(s) = " " THEN TrimLeft(Tail(s)) ELSE s

RECURSIVE TrimRight(_)
TrimRight(s) == IF s # <<>> /\ Last(s) = " " THEN TrimRight(Front(s)) ELSE s

TrimSpace(s) == TrimRight(TrimLeft(s))

\* strings.ReplaceAll(s, old, new) for one-character old and new.
ReplaceAll(s, old, new) == [i \in 1..Len(s) |-> IF s[i] = old THEN new ELSE s[i]]

(***************************************************************************)
(* File system                                                             *)
(***************************************************************************)

\* Permission bits: owner read, owner write, group write, execute/search.
DefaultFileMode == {"r", "w"}

DirMode == {"r", "w", "x"}

\* The process umask (022): group write is cleared on creation.
Umask == {"g"}

DirNode == [kind |-> "dir", content |-> 0, mode |-> DirMode \ Umask]

FileNode(c, m) == [kind |-> "file", content |-> c, mode |-> m]

Exists(f, p) == p \in DOMAIN f

IsDir(f, p) == p = <<>> \/ (p \in DOMAIN f /\ f[p].kind = "dir")

IsFile(f, p) == p \in DOMAIN f /\ f[p].kind = "file"

IsPrefix(p, q) == Len(p) <= Len(q) /\ SubSeq(q, 1, Len(p)) = p

ProperPrefixes(p) == {SubSeq(p, 1, n) : n \in 0..(Len(p) - 1)}

Under(f, root) == {p \in DOMAIN f : IsPrefix(root, p) /\ p # root}

\* os.Stat: "notdir" (ENOTDIR) when a proper prefix is a file, "notexist"
\* (ENOENT) when the path is absent, else the kind of the entry.
Stat(f, p) ==
    IF \E q \in ProperPrefixes(p) : IsFile(f, q) THEN "notdir"
    ELSE IF p = <<>> THEN "dir"
    ELSE IF p \notin DOMAIN f THEN "notexist"
    ELSE f[p].kind

Extend(f, g) == [p \in DOMAIN f \cup DOMAIN g |-> IF p \in DOMAIN g THEN g[p] ELSE f[p]]

Restrict(f, S) == [p \in S |-> f[p]]

\* os.MkdirAll: fails (nothing created) when the path or a prefix of it is a
\* file, else creates every missing directory on the way.
MkdirAllOk(f, p) == ~ \E n \in 1..Len(p) : IsFile(f, SubSeq(p, 1, n))

MkdirAll(f, p) ==
    LET missing == {SubSeq(p, 1, n) : n \in 1..Len(p)} \ DOMAIN f
    IN  Extend(f, [q \in missing |-> DirNode])

\* os.OpenFile(path, O_WRONLY|O_CREATE|O_TRUNC, mode) in an existing
\* directory: fails on a directory; truncates an existing file, whose mode is
\* kept; else creates the file with mode &^ umask.
\* Mutant of OpenTruncOk: the file is opened with O_EXCL, an existing one is refused.
OpenTruncOkExclusive(f, p) == IsDir(f, Front(p)) /\ ~Exists(f, p)

OpenTruncOk(f, p) == IsDir(f, Front(p)) /\ ~IsDir(f, p)

OpenTrunc(f, p, m) ==
    IF IsFile(f, p) THEN [f EXCEPT ![p].content = 0]
    ELSE Extend(f, [q \in {p} |-> FileNode(0, m \ Umask)])

WriteAll(f, p, c) == [f EXCEPT ![p].content = c]

\* os.RemoveAll when it succeeds: the path and everything below it is gone.
RemoveAll(f, p) == Restrict(f, {q \in DOMAIN f : ~IsPrefix(p, q)})

\* os.RemoveAll when it fails: the path itself remains; of what lies below
\* it, any set closed under descendants may already be gone.
RemoveAllFailed(f, p) ==
    {Restrict(f, DOMAIN f \ R) :
        R \in {X \in SUBSET Under(f, p) :
                  \A q \in X : \A d \in DOMAIN f : IsPrefix(q, d) => d \in X}}

\* Order in which filepath.WalkDir visits: each directory before its
\* content, the entries of a directory by name.
RECURSIVE PathLess(_, _)
PathLess(p, q) ==
    IF q = <<>> THEN FALSE
    ELSE IF p = <<>> THEN TRUE
    ELSE IF Head(p) = Head(q) THEN PathLess(Tail(p), Tail(q))
    ELSE StrLess(Head(p), Head(q))

RECURSIVE SortPaths(_)
SortPaths(S) ==
    IF S = {} THEN <<>>
    ELSE LET m == CHOOSE x \in S : \A y \in S \ {x} : PathLess(x, y)
         IN  <<m>> \o SortPaths(S \ {m})

\* The paths WalkDir(root) passes to its callback after the root itself.
\* Mutant of WalkDir: only the entries directly in the root are visited.
WalkDirTopLevel(f, root) == SortPaths({p \in Under(f, root) : Len(p) = Len(root) + 1})

WalkDir(f, root) == SortPaths(Under(f, root))

\* sort.Strings on path strings.
PathString(p) == <<"/">> \o JoinSegs(p)

RECURSIVE SortStrings(_)
SortStrings(S) ==
    IF S = {} THEN <<>>
    ELSE LET m == CHOOSE x \in S : \A y \in S \ {x} : StrLess(PathString(x), PathString(y))
         IN  <<m>> \o SortStrings(S \ {m})

\* The path relative to root (filepath.Rel), as segments.
Rel(root, p) == SubSeq(p, Len(root) + 1, Len(p))

(***************************************************************************)
(* Pure helpers of the runner                                              *)
(***************************************************************************)

\* doublestar.Match within one path segment: "*" matches any run of
\* characters of the segment, every other character matches itself.
RECURSIVE MatchSeg(_, _)
MatchSeg(p, s) ==
    IF p = <<>> THEN s = <<>>
    ELSE IF Head(p) = "*"
         THEN MatchSeg(Tail(p), s) \/ (s # <<>> /\ MatchSeg(p, Tail(s)))
         ELSE s # <<>> /\ Head(p) = Head(s) /\ MatchSeg(Tail(p), Tail(s))

DoubleStar == <<"*", "*">>

\* doublestar.Match across segments: a "**" segment matches zero or more
\* whole segments (so "d/**" matches "d" as well as everything below it).
RECURSIVE MatchSegs(_, _)
MatchSegs(ps, ns) ==
    IF ps = <<>> THEN ns = <<>>
    ELSE IF Head(ps) = DoubleStar
         THEN MatchSegs(Tail(ps), ns) \/ (ns # <<>> /\ MatchSegs(ps, Tail(ns)))
         ELSE ns # <<>> /\ MatchSeg(Head(ps), Head(ns)) /\ MatchSegs(Tail(ps), Tail(ns))

\* doublestar.Match(pattern, name), both slash-separated strings.
Match(pattern, name) == MatchSegs(Split(pattern), Split(name))

\* Mutant of sanitizeArtist: the separators are not replaced.
sanitizeArtistKeepsSeparators(name) ==
    LET trimmed == TrimSpace(name)
        cleaned == Clean(trimmed)
    IN  IF trimmed = <<>> THEN [ok |-> FALSE, value |-> <<>>]
        ELSE IF IsAbs(cleaned) \/ HasPrefix(cleaned, DotDot) THEN [ok |-> FALSE, value |-> <<>>]
        ELSE IF cleaned = Dot \/ cleaned = <<>> THEN [ok |-> FALSE, value |-> <<>>]
        ELSE [ok |-> TRUE, value |-> cleaned]

\* Mutant of sanitizeArtist: the test for a leading ".." is missing.
sanitizeArtistNoParentTest(name) ==
    LET trimmed  == TrimSpace(name)
        cleaned  == Clean(trimmed)
        replaced == ReplaceAll(ReplaceAll(cleaned, "/", "_"), "\\", "_")
    IN  IF trimmed = <<>> THEN [ok |-> FALSE, value |-> <<>>]
        ELSE IF IsAbs(cleaned) THEN [ok |-> FALSE, value |-> <<>>]
        ELSE IF replaced = Dot \/ replaced = <<>> THEN [ok |-> FALSE, value |-> <<>>]
        ELSE [ok |-> TRUE, value |-> replaced]

\* sanitizeArtist: the value returned, or ok = FALSE for an error.
sanitizeArtist(name) ==
    LET trimmed  == TrimSpace(name)
        cleaned  == Clean(trimmed)
        replaced == ReplaceAll(ReplaceAll(cleaned, "/", "_"), "\\", "_")
    IN  IF trimmed = <<>> THEN [ok |-> FALSE, value |-> <<>>]
        ELSE IF IsAbs(cleaned) \/ HasPrefix(cleaned, DotDot) THEN [ok |-> FALSE, value |-> <<>>]
        ELSE IF replaced = Dot \/ replaced = <<>> THEN [ok |-> FALSE, value |-> <<>>]
        ELSE [ok |-> TRUE, value |-> replaced]

\* resolvePixeldrain on a request given by its shape: a bare id, or a URL
\* with a host and a last path segment.  ok = FALSE for an error.
resolvePixeldrain(u) ==
    IF u.form = "blank" THEN FALSE
    ELSE IF u.form = "id" THEN TRUE
    ELSE u.host \in {"pixeldrain.com", "doubledouble.top"} /\ u.idOk

(***************************************************************************)
(* Inputs                                                                  *)
(***************************************************************************)

\* Longest archive (number of zip entries) the model downloads.
MaxEntries == 2

TmpBase == << <<"t", "m", "p">> >>

DownloadDir == TmpBase \o << <<"d", "l">> >>

ArchiveFile == DownloadDir \o << <<"z">> >>

StagingDir == TmpBase \o << <<"e", "x">> >>

\* cfg.NavidromeMusicPath
MusicPath == << <<"l", "i", "b">> >>

NoPath == <<>>

\* Zip entries: name as stored, directory flag, bytes, declared mode.
EntryPool ==
    { [name |-> <<"a">>, isDir |-> FALSE, content |-> 1, mode |-> {}],
      [name |-> <<"d", "/", ".", ".", "/", "a">>, isDir |-> FALSE, content |-> 2, mode |-> {"r"}],
      [name |-> <<"d", "/", "b">>, isDir |-> FALSE, content |-> 2, mode |-> {"r", "w", "g"}],
      [name |-> <<"d", "/">>, isDir |-> TRUE, content |-> 0, mode |-> DirMode],
      [name |-> <<".", ".", "/", "a">>, isDir |-> FALSE, content |-> 1, mode |-> {}],
      [name |-> <<"/", "a">>, isDir |-> FALSE, content |-> 1, mode |-> {}] }

RECURSIVE SeqsUpTo(_, _)
SeqsUpTo(S, n) ==
    IF n = 0 THEN {<<>>}
    ELSE LET shorter == SeqsUpTo(S, n - 1)
         IN  shorter \cup {Append(q, e) : q \in {r \in shorter : Len(r) = n - 1}, e \in S}

\* What the download delivers: a zip that opens, or a file that does not.
Archives ==
    {[valid |-> TRUE, entries |-> es] : es \in SeqsUpTo(EntryPool, MaxEntries)}
        \cup {[valid |-> FALSE, entries |-> <<>>]}

\* cfg.UnneededPatterns
PatternLists ==
    { <<>>,
      << <<"*", "*">> >>,
      << <<"a">> >>,
      << <<"d">> >>,
      << <<"d", "/", "*", "*">> >>,
      << <<"a">>, <<"d", "/", "*">> >> }

\* opts.Artist
Artists == { <<"x">>, <<" ">>, <<".", ".">> }

\* opts.URL
Urls ==
    { [form |-> "blank", host |-> "", idOk |-> FALSE],
      [form |-> "id", host |-> "", idOk |-> TRUE],
      [form |-> "url", host |-> "example.com", idOk |-> TRUE] }

\* opts.TmpDir: unset, or a relative path.
TmpDirs == {"", "rel"}

\* The artist directory of the library for the artist label "x".
Dest == MusicPath \o << <<"x">> >>

EmptyFs == [p \in {} |-> DirNode]

\* States of the artist directory before the run: absent, an empty
\* directory, two populated directories, a plain file.
DestPool ==
    { EmptyFs,
      [p \in {Dest} |-> DirNode],
      [p \in {Dest, Dest \o << <<"a">> >>, Dest \o << <<"d">> >>, Dest \o << <<"d">>, <<"c">> >>} |->
          IF p \in {Dest, Dest \o << <<"d">> >>} THEN DirNode ELSE FileNode(9, DefaultFileMode)],
      [p \in {Dest, Dest \o << <<"a">> >>, Dest \o << <<"d">> >>} |->
          IF p \in {Dest, Dest \o << <<"a">> >>} THEN DirNode ELSE FileNode(9, DefaultFileMode)],
      [p \in {Dest} |-> FileNode(9, DefaultFileMode)] }

BaseFs == [p \in {TmpBase, MusicPath} |-> DirNode]

(***************************************************************************)
(* State                                                                   *)
(***************************************************************************)

VARIABLES
    fs,           \* the file system: path -> node
    opts,         \* runner.opts
    patterns,     \* runner.cfg.UnneededPatterns
    pc,           \* position of Execute
    ret,          \* the error Execute returns: step and kind ("none": nil)
    artistDir,    \* runner.artistDir
    zip,          \* content of the downloaded archive
    archivePath,  \* Execute's archivePath
    destDir,      \* extractArchive's destDir
    ei,           \* extractArchive's position in reader.File
    extractDir,   \* Execute's extractDir
    mi,           \* moveIntoLibrary's position in its walk of the staged tree
    deferred,     \* Execute's deferred cleanupPath calls, last one first to run
    stats,        \* runner.stats
    ioFailed,     \* history: a file-system operation of a pipeline step failed
    cleanupFailed,\* history: the paths whose removal in cleanupPath failed
    fs0,          \* history: the file system when Execute was called
    fsE,          \* history: the file system when extractArchive was called
    fsX,          \* history: the file system when extractArchive returned
    fsP,          \* history: the file system when pruneExtracted returned
    calls,        \* history: the steps Execute has called, in order
    prev,         \* the run of Execute before this one, if there was one
    racers        \* the runs of moveIntoLibrary that execute concurrently

vars == <<fs, opts, patterns, pc, ret, artistDir, zip, archivePath, destDir, ei,
          extractDir, mi, deferred, stats, ioFailed, cleanupFailed, fs0, fsE, fsX, fsP, calls,
          prev, racers>>

NoError == [step |-> "none", kind |-> "none"]

\* Mutant of Error: Execute wraps the error of the step in one of its own.
ErrorWrapped(step, kind) == [step |-> "execute", kind |-> kind]

Error(step, kind) == [step |-> step, kind |-> kind]

NoZip == [valid |-> FALSE, entries |-> <<>>]

\* No run of Execute came before this one.
NoPrev == [ran |-> FALSE, ret |-> NoError, movedFiles |-> 0, downloaded |-> FALSE, zip |-> NoZip]

\* The two runs of the racing specification.
Racers == {1, 2}

\* No run of moveIntoLibrary executes beside this one.
NoRacers ==
    [r \in Racers |->
        [pc |-> "done", mi |-> 0, ret |-> "nil", passed |-> FALSE, clobbered |-> {}, lost |-> {}]]

Init ==
    /\ \E d \in DestPool : fs = Extend(BaseFs, d)
    /\ opts \in [Artist : Artists, URL : Urls, TmpDir : TmpDirs,
                 KeepTemp : BOOLEAN, DryRun : BOOLEAN]
    /\ patterns \in PatternLists
    /\ pc = "validate"
    /\ ret = NoError
    /\ artistDir = <<>>
    /\ zip = NoZip
    /\ archivePath = NoPath
    /\ destDir = NoPath
    /\ ei = 0
    /\ extractDir = NoPath
    /\ mi = 0
    /\ deferred = <<>>
    /\ stats = [downloadBytes |-> 0, extractedEntries |-> 0, pruned |-> 0, movedFiles |-> 0]
    /\ ioFailed = FALSE
    /\ cleanupFailed = {}
    /\ fs0 = fs
    /\ fsE = EmptyFs
    /\ fsX = EmptyFs
    /\ fsP = EmptyFs
    /\ calls = <<>>
    /\ prev = NoPrev
    /\ racers = NoRacers

\* Mutant of Fail: the error is recorded but Execute does not return.
FailContinues(step, kind) ==
    /\ ret' = Error(step, kind)
    /\ pc' = pc

\* `return err` in Execute: the deferred calls run next.
Fail(step, kind) ==
    /\ ret' = Error(step, kind)
    /\ pc' = "cleanup"

(***************************************************************************)
(* Execute: validation and download                                        *)
(***************************************************************************)

\* validateInputs (the tmp-dir of the model, when set, is relative)
validateInputs(o) ==
    IF TrimSpace(o.Artist) = <<>> THEN "artist is required"
    ELSE IF o.URL.form = "blank" THEN "url is required"
    ELSE IF o.TmpDir # "" THEN "tmp-dir must be absolute"
    ELSE "nil"

ValidateInputs ==
    /\ pc = "validate"
    /\ IF validateInputs(opts) # "nil"
       THEN Fail("validate", "invalid")
       ELSE pc' = "sanitize" /\ UNCHANGED ret
    /\ UNCHANGED <<fs, opts, patterns, artistDir, zip, archivePath, destDir, ei, extractDir,
                   mi, deferred, stats, ioFailed, cleanupFailed, fs0, prev, racers, fsE, fsX, fsP>>
    /\ calls' = Append(calls, "validate")

SanitizeArtist ==
    /\ pc = "sanitize"
    /\ LET r == sanitizeArtist(opts.Artist) IN
       IF ~r.ok
       THEN Fail("sanitize", "invalid") /\ UNCHANGED artistDir
       ELSE artistDir' = r.value /\ pc' = "resolve" /\ UNCHANGED ret
    /\ UNCHANGED <<fs, opts, patterns, zip, archivePath, destDir, ei, extractDir,
                   mi, deferred, stats, ioFailed, cleanupFailed, fs0, prev, racers, fsE, fsX, fsP>>
    /\ calls' = Append(calls, "sanitize")

ResolvePixeldrain ==
    /\ pc = "resolve"
    /\ IF ~resolvePixeldrain(opts.URL)
       THEN Fail("resolve", "invalid")
       ELSE pc' = "download" /\ UNCHANGED ret
    /\ UNCHANGED <<fs, opts, patterns, artistDir, zip, archivePath, destDir, ei, extractDir,
                   mi, deferred, stats, ioFailed, cleanupFailed, fs0, prev, racers, fsE, fsX, fsP>>
    /\ calls' = Append(calls, "resolve")

\* What the URL serves: any archive, and on a later run the archive an
\* earlier download of the same URL delivered.
Served == IF prev.downloaded THEN {prev.zip} ELSE Archives

\* downloadArchive followed by `defer r.cleanupPath(archivePath)`.  The
\* outcomes: MkdirTemp fails; the request fails or is refused once the
\* directory exists; the body cannot be written or is empty once the file
\* exists; or the archive is written.
DownloadArchive ==
    /\ pc = "download"
    /\ \E outcome \in {"mkdir", "http", "write", "ok"} :
         LET withDir  == MkdirAll(fs, DownloadDir)
             withFile == OpenTrunc(withDir, ArchiveFile, DefaultFileMode)
         IN  CASE outcome = "mkdir" ->
                    /\ Fail("download", "io")
                    /\ UNCHANGED <<fs, zip, archivePath, deferred, stats>>
               [] outcome = "http" ->
                    /\ fs' = withDir
                    /\ Fail("download", "http")
                    /\ UNCHANGED <<zip, archivePath, deferred, stats>>
               [] outcome = "write" ->
                    /\ fs' = withFile
                    /\ Fail("download", "io")
                    /\ UNCHANGED <<zip, archivePath, deferred, stats>>
               [] outcome = "ok" ->
                    /\ \E z \in Served : zip' = z
                    /\ fs' = WriteAll(withFile, ArchiveFile, 1)
                    /\ archivePath' = ArchiveFile
                    /\ deferred' = Append(deferred, ArchiveFile)
                    /\ stats' = [stats EXCEPT !.downloadBytes = 1]
                    /\ pc' = "extractOpen"
                    /\ UNCHANGED ret
    /\ UNCHANGED <<opts, patterns, artistDir, destDir, ei, extractDir, mi,
                   ioFailed, cleanupFailed, fs0, prev, racers, fsE, fsX, fsP>>
    /\ calls' = Append(calls, "download")

(***************************************************************************)
(* extractArchive                                                          *)
(***************************************************************************)

\* Mutant of UnsafeRel: the test for a leading ".." is missing.
UnsafeRelAbsOnly(rel) == IsAbs(rel)

\* The zip-slip test of extractArchive on a cleaned entry name.
UnsafeRel(rel) == IsAbs(rel) \/ HasPrefix(rel, DotDot)

\* The mode a file entry is created with: 0o644 when the zip declares none.
EntryMode(f) == IF f.mode = {} THEN DefaultFileMode ELSE f.mode

\* Mutant of ExtractOpen: the staging directory is created before the zip is
\* opened and tested for entries.
ExtractOpenMkdirFirst ==
    /\ pc = "extractOpen"
    /\ \E created \in BOOLEAN :
         IF ~created
         THEN /\ Fail("extract", "io")
              /\ ioFailed' = TRUE
              /\ UNCHANGED <<fs, destDir, ei>>
         ELSE /\ fs' = MkdirAll(fs, StagingDir)
              /\ IF ~zip.valid
                 THEN Fail("extract", "open") /\ UNCHANGED <<destDir, ei, ioFailed>>
                 ELSE IF Len(zip.entries) = 0
                 THEN Fail("extract", "empty") /\ UNCHANGED <<destDir, ei, ioFailed>>
                 ELSE /\ destDir' = StagingDir
                      /\ ei' = 1
                      /\ pc' = "extractEntry"
                      /\ UNCHANGED <<ret, ioFailed>>
    /\ UNCHANGED <<opts, patterns, artistDir, zip, archivePath, extractDir, mi, deferred,
                   stats, cleanupFailed, fs0, prev, racers, fsX, fsP>>
    /\ fsE' = fs
    /\ calls' = Append(calls, "extract")

\* extractArchive up to the entry loop: open the zip, refuse an empty one,
\* create the staging directory.
ExtractOpen ==
    /\ pc = "extractOpen"
    /\ IF ~zip.valid
       THEN Fail("extract", "open") /\ UNCHANGED <<fs, destDir, ei, ioFailed>>
       ELSE IF Len(zip.entries) = 0
       THEN Fail("extract", "empty") /\ UNCHANGED <<fs, destDir, ei, ioFailed>>
       ELSE \E created \in BOOLEAN :
              IF created
              THEN /\ fs' = MkdirAll(fs, StagingDir)
                   /\ destDir' = StagingDir
                   /\ ei' = 1
                   /\ pc' = "extractEntry"
                   /\ UNCHANGED <<ret, ioFailed>>
              ELSE /\ Fail("extract", "io")
                   /\ ioFailed' = TRUE
                   /\ UNCHANGED <<fs, destDir, ei>>
    /\ UNCHANGED <<opts, patterns, artistDir, zip, archivePath, extractDir, mi, deferred,
                   stats, cleanupFailed, fs0, prev, racers, fsX, fsP>>
    /\ fsE' = fs
    /\ calls' = Append(calls, "extract")

\* One iteration of the entry loop.  A file entry can fail at the MkdirAll
\* of its parent, at opening the entry or creating the target (the parent
\* exists by then), or while copying (the target exists, partly written).
ExtractEntry ==
    /\ pc = "extractEntry"
    /\ ei <= Len(zip.entries)
    /\ LET f      == zip.entries[ei]
           rel    == Clean(f.name)
           target == JoinPath(destDir, rel)
           parent == Front(target)
       IN  IF rel = Dot
           THEN ei' = ei + 1 /\ UNCHANGED <<fs, pc, ret, ioFailed>>
           ELSE IF UnsafeRel(rel)
           THEN Fail("extract", "unsafe") /\ UNCHANGED <<fs, ei, ioFailed>>
           ELSE IF f.isDir
           THEN \E fault \in {"none", "mkdir"} :
                  IF fault = "none" /\ MkdirAllOk(fs, target)
                  THEN fs' = MkdirAll(fs, target) /\ ei' = ei + 1 /\ UNCHANGED <<pc, ret, ioFailed>>
                  ELSE Fail("extract", "io") /\ ioFailed' = TRUE /\ UNCHANGED <<fs, ei>>
           ELSE \E fault \in {"none", "mkdir", "open", "copy"} :
                  IF fault = "mkdir" \/ ~MkdirAllOk(fs, parent)
                  THEN Fail("extract", "io") /\ ioFailed' = TRUE /\ UNCHANGED <<fs, ei>>
                  ELSE LET withParent == MkdirAll(fs, parent) IN
                       IF fault = "open" \/ ~OpenTruncOk(withParent, target)
                       THEN /\ fs' = withParent
                            /\ Fail("extract", "io") /\ ioFailed' = TRUE /\ UNCHANGED ei
                       ELSE LET opened == OpenTrunc(withParent, target, EntryMode(f)) IN
                            IF fault = "copy"
                            THEN /\ fs' = opened
                                 /\ Fail("extract", "io") /\ ioFailed' = TRUE /\ UNCHANGED ei
                            ELSE /\ fs' = WriteAll(opened, target, f.content)
                                 /\ ei' = ei + 1
                                 /\ UNCHANGED <<pc, ret, ioFailed>>
    /\ UNCHANGED <<opts, patterns, artistDir, zip, archivePath, destDir, extractDir, mi,
                   deferred, stats, cleanupFailed, fs0, prev, racers, fsE, fsX, fsP, calls>>

\* The end of extractArchive and, in Execute, `defer r.cleanupPath(extractDir)`.
ExtractReturn ==
    /\ pc = "extractEntry"
    /\ ei > Len(zip.entries)
    /\ stats' = [stats EXCEPT !.extractedEntries = Len(zip.entries)]
    /\ extractDir' = destDir
    /\ deferred' = Append(deferred, destDir)
    /\ fsX' = fs
    /\ pc' = "prune"
    /\ UNCHANGED <<fs, opts, patterns, ret, artistDir, zip, archivePath, destDir, ei, mi,
                   ioFailed, cleanupFailed, fs0, prev, racers, fsE, fsP, calls>>

(***************************************************************************)
(* pruneExtracted                                                          *)
(***************************************************************************)

\* relSlash of a staged path.
RelSlash(root, p) == JoinSegs(Rel(root, p))

\* Mutant of PruneMatches: only files are matched against the patterns.
PruneMatchesFilesOnly(f, root, pats) ==
    {p \in Under(f, root) :
        IsFile(f, p) /\ \E i \in 1..Len(pats) : Match(pats[i], RelSlash(root, p))}

\* Mutant of PruneMatches: only the first pattern of the list is tried.
PruneMatchesFirstPattern(f, root, pats) ==
    {p \in Under(f, root) : Len(pats) > 0 /\ Match(pats[1], RelSlash(root, p))}

\* The first walk: the set `unique` of the staged paths that match a pattern.
PruneMatches(f, root, pats) ==
    {p \in Under(f, root) : \E i \in 1..Len(pats) : Match(pats[i], RelSlash(root, p))}

\* fileCount of the first walk.
FileCount(f, root) == Cardinality({p \in Under(f, root) : IsFile(f, p)})

\* remainingFiles of the second walk: the files that are not in `unique` and
\* are not below a directory of `unique` (SkipDir).
RemainingFiles(f, root, unique) ==
    Cardinality({p \in Under(f, root) :
                    /\ IsFile(f, p)
                    /\ p \notin unique
                    /\ ~ \E q \in unique : IsPrefix(q, p)})

\* Mutant of PruneGuard: the remaining files are compared the wrong way.
PruneGuardWrongTest(f, root, unique) ==
    FileCount(f, root) > 0 /\ RemainingFiles(f, root, unique) < 0

\* The safety guard.
PruneGuard(f, root, unique) == FileCount(f, root) > 0 /\ RemainingFiles(f, root, unique) = 0

RECURSIVE RemoveSeq(_, _)
RemoveSeq(f, paths) ==
    IF paths = <<>> THEN f ELSE RemoveSeq(RemoveAll(f, Head(paths)), Tail(paths))

\* Mutant of pruneDryRun: the removal loop always takes the dry-run branch.
pruneDryRunAlways(o) == TRUE

\* The dry-run test of the removal loop.
pruneDryRun(o) == o.DryRun

pruneExtracted ==
    /\ pc = "prune"
    /\ LET unique  == PruneMatches(fs, extractDir, patterns)
           removed == SortStrings(unique)
       IN  IF Len(patterns) = 0
           THEN pc' = "moveCheck" /\ UNCHANGED <<fs, ret, stats, ioFailed>>
           ELSE IF PruneGuard(fs, extractDir, unique)
           THEN Fail("prune", "guard") /\ UNCHANGED <<fs, stats, ioFailed>>
           ELSE IF unique = {}
           THEN pc' = "moveCheck" /\ UNCHANGED <<fs, ret, stats, ioFailed>>
           ELSE IF pruneDryRun(opts)
           THEN /\ stats' = [stats EXCEPT !.pruned = Len(removed)]
                /\ pc' = "moveCheck"
                /\ UNCHANGED <<fs, ret, ioFailed>>
           ELSE \E k \in 0..Len(removed) :
                  IF k = 0
                  THEN /\ fs' = RemoveSeq(fs, removed)
                       /\ stats' = [stats EXCEPT !.pruned = Len(removed)]
                       /\ pc' = "moveCheck"
                       /\ UNCHANGED <<ret, ioFailed>>
                  ELSE LET before == RemoveSeq(fs, SubSeq(removed, 1, k - 1)) IN
                       /\ Exists(before, removed[k])
                       /\ fs' \in RemoveAllFailed(before, removed[k])
                       /\ Fail("prune", "io")
                       /\ ioFailed' = TRUE
                       /\ UNCHANGED stats
    /\ UNCHANGED <<opts, patterns, artistDir, zip, archivePath, destDir, ei, extractDir, mi,
                   deferred, cleanupFailed, fs0, prev, racers, fsE, fsX>>
    /\ fsP' = fs'
    /\ calls' = Append(calls, "prune")

(***************************************************************************)
(* moveIntoLibrary                                                         *)
(***************************************************************************)

\* destinationPath
destinationPath == JoinPath(MusicPath, artistDir)

\* Mutant of CollisionAt: whatever exists at the target is a conflict.
CollisionAtAnyShared(f, srcRoot, destRoot, p) ==
    LET target == JoinPath(destRoot, RelSlash(srcRoot, p))
        info   == Stat(f, target)
    IN  IF info = "notexist" THEN "nil"
        ELSE IF info = "notdir" THEN "io"
        ELSE "collision"

\* Mutant of CollisionAt: a staged directory over a destination file passes.
CollisionAtNoDirFile(f, srcRoot, destRoot, p) ==
    LET target == JoinPath(destRoot, RelSlash(srcRoot, p))
        info   == Stat(f, target)
    IN  IF info = "notexist" THEN "nil"
        ELSE IF info = "notdir" THEN "io"
        ELSE IF ~IsDir(f, p) /\ info = "dir" THEN "collision"
        ELSE IF ~IsDir(f, p) /\ info # "dir" THEN "collision"
        ELSE "nil"

\* Mutant of CollisionAt: a staged file over a destination file passes.
CollisionAtNoFileFile(f, srcRoot, destRoot, p) ==
    LET target == JoinPath(destRoot, RelSlash(srcRoot, p))
        info   == Stat(f, target)
    IN  IF info = "notexist" THEN "nil"
        ELSE IF info = "notdir" THEN "io"
        ELSE IF IsDir(f, p) /\ info # "dir" THEN "collision"
        ELSE IF ~IsDir(f, p) /\ info = "dir" THEN "collision"
        ELSE "nil"

\* The callback of ensureNoCollisions on one staged path: "nil", "io" (Stat
\* fails other than with not-exist) or "collision".
CollisionAt(f, srcRoot, destRoot, p) ==
    LET target == JoinPath(destRoot, RelSlash(srcRoot, p))
        info   == Stat(f, target)
    IN  IF info = "notexist" THEN "nil"
        ELSE IF info = "notdir" THEN "io"
        ELSE IF IsDir(f, p) /\ info # "dir" THEN "collision"
        ELSE IF ~IsDir(f, p) /\ info = "dir" THEN "collision"
        ELSE IF ~IsDir(f, p) /\ info # "dir" THEN "collision"
        ELSE "nil"

\* Mutant of ensureNoCollisions: the walk never reports anything.
ensureNoCollisionsSkipped(f, srcRoot, destRoot) == "nil"

\* ensureNoCollisions: the first error of the walk of the staged tree.
ensureNoCollisions(f, srcRoot, destRoot) ==
    LET walk == WalkDir(f, srcRoot)
        bad  == {i \in 1..Len(walk) : CollisionAt(f, srcRoot, destRoot, walk[i]) # "nil"}
    IN  IF bad = {} THEN "nil"
        ELSE CollisionAt(f, srcRoot, destRoot, walk[CHOOSE i \in bad : \A j \in bad : i <= j])

\* Mutant of copyFile: the target is created with 0o644, not the source's mode.
copyFileDefaultMode(f, src, dst, mode) ==
    WriteAll(OpenTrunc(f, dst, DefaultFileMode), dst, f[src].content)

\* copyFile when nothing fails: the target is created (or truncated) and
\* receives the bytes of the source.
copyFile(f, src, dst, mode) == WriteAll(OpenTrunc(f, dst, mode), dst, f[src].content)

\* Mutant of moveDryRun: the flag is not consulted.
moveDryRunIgnored(o) == FALSE

\* The dry-run test of moveIntoLibrary.
moveDryRun(o) == o.DryRun

\* moveIntoLibrary up to its walk: the collision check, the dry-run return
\* and the creation of the destination root.
MoveCheck ==
    /\ pc = "moveCheck"
    /\ LET dest == destinationPath
           c    == ensureNoCollisions(fs, extractDir, dest)
       IN  IF c # "nil"
           THEN Fail("merge", c) /\ ioFailed' = (ioFailed \/ c = "io") /\ UNCHANGED <<fs, mi>>
           ELSE IF moveDryRun(opts)
           THEN pc' = "cleanup" /\ UNCHANGED <<fs, ret, mi, ioFailed>>
           ELSE \E fault \in BOOLEAN :
                  IF fault \/ ~MkdirAllOk(fs, dest)
                  THEN Fail("merge", "io") /\ ioFailed' = TRUE /\ UNCHANGED <<fs, mi>>
                  ELSE /\ fs' = MkdirAll(fs, dest)
                       /\ mi' = 1
                       /\ pc' = "moveWalk"
                       /\ UNCHANGED <<ret, ioFailed>>
    /\ UNCHANGED <<opts, patterns, artistDir, zip, archivePath, destDir, ei, extractDir,
                   deferred, stats, cleanupFailed, fs0, prev, racers, fsE, fsX, fsP>>
    /\ calls' = Append(calls, "merge")

\* One call of the callback of the second walk.  A file can fail at the
\* MkdirAll of the target's parent, at opening the source or the target, or
\* while copying (the target exists, partly written).
MoveEntry ==
    /\ pc = "moveWalk"
    /\ mi <= Len(WalkDir(fs, extractDir))
    /\ LET p      == WalkDir(fs, extractDir)[mi]
           target == JoinPath(destinationPath, RelSlash(extractDir, p))
           parent == Front(target)
       IN  IF IsDir(fs, p)
           THEN \E fault \in {"none", "mkdir"} :
                  IF fault = "none" /\ MkdirAllOk(fs, target)
                  THEN fs' = MkdirAll(fs, target) /\ mi' = mi + 1 /\ UNCHANGED <<pc, ret, stats, ioFailed>>
                  ELSE Fail("merge", "io") /\ ioFailed' = TRUE /\ UNCHANGED <<fs, mi, stats>>
           ELSE \E fault \in {"none", "mkdir", "open", "copy"} :
                  IF fault = "mkdir" \/ ~MkdirAllOk(fs, parent)
                  THEN Fail("merge", "io") /\ ioFailed' = TRUE /\ UNCHANGED <<fs, mi, stats>>
                  ELSE LET withParent == MkdirAll(fs, parent) IN
                       IF fault = "open" \/ ~OpenTruncOk(withParent, target)
                       THEN /\ fs' = withParent
                            /\ Fail("merge", "io") /\ ioFailed' = TRUE /\ UNCHANGED <<mi, stats>>
                       ELSE IF fault = "copy"
                       THEN /\ fs' = OpenTrunc(withParent, target, fs[p].mode)
                            /\ Fail("merge", "io") /\ ioFailed' = TRUE /\ UNCHANGED <<mi, stats>>
                       ELSE /\ fs' = copyFile(withParent, p, target, fs[p].mode)
                            /\ stats' = [stats EXCEPT !.movedFiles = @ + 1]
                            /\ mi' = mi + 1
                            /\ UNCHANGED <<pc, ret, ioFailed>>
    /\ UNCHANGED <<opts, patterns, artistDir, zip, archivePath, destDir, ei, extractDir,
                   deferred, cleanupFailed, fs0, prev, racers, fsE, fsX, fsP, calls>>

\* The walk is over: moveIntoLibrary and Execute return nil.
MoveReturn ==
    /\ pc = "moveWalk"
    /\ mi > Len(WalkDir(fs, extractDir))
    /\ pc' = "cleanup"
    /\ UNCHANGED <<fs, opts, patterns, ret, artistDir, zip, archivePath, destDir, ei,
                   extractDir, mi, deferred, stats, ioFailed, cleanupFailed, fs0, prev, racers, fsE, fsX, fsP, calls>>

(***************************************************************************)
(* Cleanup                                                                 *)
(***************************************************************************)

\* Mutant of CleanupRemoves: the keep-temp flag is read the wrong way round.
CleanupRemovesInverted(path, keepTemp) == ~(path = NoPath \/ ~keepTemp)

\* Mutant of CleanupRemoves: the keep-temp flag is not consulted.
CleanupRemovesAlways(path, keepTemp) == path # NoPath

\* cleanupPath: whether it calls os.RemoveAll on the path.
CleanupRemoves(path, keepTemp) == ~(path = NoPath \/ keepTemp)

\* The next deferred cleanupPath call runs; a failing os.RemoveAll is logged.
CleanupPath ==
    /\ pc = "cleanup"
    /\ deferred # <<>>
    /\ LET path == Last(deferred) IN
       IF ~CleanupRemoves(path, opts.KeepTemp)
       THEN UNCHANGED <<fs, cleanupFailed>>
       ELSE \/ fs' = RemoveAll(fs, path) /\ UNCHANGED cleanupFailed
            \/ /\ Exists(fs, path)
               /\ fs' \in RemoveAllFailed(fs, path)
               /\ cleanupFailed' = cleanupFailed \cup {path}
    /\ deferred' = Front(deferred)
    /\ UNCHANGED <<opts, patterns, pc, ret, artistDir, zip, archivePath, destDir, ei,
                   extractDir, mi, stats, ioFailed, fs0, prev, racers, fsE, fsX, fsP, calls>>

\* Execute returns to its caller.
Return ==
    /\ pc = "cleanup"
    /\ deferred = <<>>
    /\ pc' = "done"
    /\ UNCHANGED <<fs, opts, patterns, ret, artistDir, zip, archivePath, destDir, ei,
                   extractDir, mi, deferred, stats, ioFailed, cleanupFailed, fs0, prev, racers, fsE, fsX, fsP, calls>>

Next ==
    \/ ValidateInputs
    \/ SanitizeArtist
    \/ ResolvePixeldrain
    \/ DownloadArchive
    \/ ExtractOpen
    \/ ExtractEntry
    \/ ExtractReturn
    \/ pruneExtracted
    \/ MoveCheck
    \/ MoveEntry
    \/ MoveReturn
    \/ CleanupPath
    \/ Return

Spec == Init /\ [][Next]_vars

(***************************************************************************)
(* Two successive runs                                                     *)
(***************************************************************************)

\* Run builds a new runner with the same options and configuration and
\* calls Execute again on the file system the first run left.  What the
\* first run left below the temporary base has names from os.MkdirTemp that
\* no later run gets again, so the second run does not see it.  The second
\* run starts after a first run of the given kind.
RerunAfter(first) ==
    /\ pc = "done"
    /\ ~prev.ran
    /\ first
    /\ prev' = [ran |-> TRUE, ret |-> ret, movedFiles |-> stats.movedFiles,
                downloaded |-> (archivePath # NoPath), zip |-> zip]
    /\ fs' = Restrict(fs, {p \in DOMAIN fs : p = TmpBase \/ ~IsPrefix(TmpBase, p)})
    /\ fs0' = fs'
    /\ pc' = "validate"
    /\ ret' = NoError
    /\ artistDir' = <<>>
    /\ zip' = NoZip
    /\ archivePath' = NoPath
    /\ destDir' = NoPath
    /\ ei' = 0
    /\ extractDir' = NoPath
    /\ mi' = 0
    /\ deferred' = <<>>
    /\ stats' = [downloadBytes |-> 0, extractedEntries |-> 0, pruned |-> 0, movedFiles |-> 0]
    /\ cleanupFailed' = {}
    /\ fsE' = EmptyFs
    /\ fsX' = EmptyFs
    /\ fsP' = EmptyFs
    /\ calls' = <<>>
    /\ UNCHANGED <<opts, patterns, ioFailed, racers>>

\* The second run after a first run in which no file-system operation of a
\* step failed.
Rerun == RerunAfter(~ioFailed)

NextTwice ==
    \/ ValidateInputs
    \/ SanitizeArtist
    \/ ResolvePixeldrain
    \/ DownloadArchive
    \/ ExtractOpen
    \/ ExtractEntry
    \/ ExtractReturn
    \/ pruneExtracted
    \/ MoveCheck
    \/ MoveEntry
    \/ MoveReturn
    \/ CleanupPath
    \/ Return
    \/ Rerun

SpecTwice == Init /\ [][NextTwice]_vars

(***************************************************************************)
(* A run after a merge that failed part-way                                *)
(***************************************************************************)

\* States of the artist directory that the archives of the model do not
\* collide with: absent, holding a file, holding a directory with a file.
PartialDestPool ==
    { EmptyFs,
      [p \in {Dest, Dest \o << <<"c">> >>} |->
          IF p = Dest THEN DirNode ELSE FileNode(9, DefaultFileMode)],
      [p \in {Dest, Dest \o << <<"d">> >>, Dest \o << <<"d">>, <<"c">> >>} |->
          IF p \in {Dest, Dest \o << <<"d">> >>} THEN DirNode ELSE FileNode(9, DefaultFileMode)] }

\* Execute is called in normal mode.
InitPartial ==
    /\ \E d \in PartialDestPool : fs = Extend(BaseFs, d)
    /\ opts \in [Artist : Artists, URL : Urls, TmpDir : TmpDirs,
                 KeepTemp : BOOLEAN, DryRun : {FALSE}]
    /\ patterns \in PatternLists
    /\ pc = "validate"
    /\ ret = NoError
    /\ artistDir = <<>>
    /\ zip = NoZip
    /\ archivePath = NoPath
    /\ destDir = NoPath
    /\ ei = 0
    /\ extractDir = NoPath
    /\ mi = 0
    /\ deferred = <<>>
    /\ stats = [downloadBytes |-> 0, extractedEntries |-> 0, pruned |-> 0, movedFiles |-> 0]
    /\ ioFailed = FALSE
    /\ cleanupFailed = {}
    /\ fs0 = fs
    /\ fsE = EmptyFs
    /\ fsX = EmptyFs
    /\ fsP = EmptyFs
    /\ calls = <<>>
    /\ prev = NoPrev
    /\ racers = NoRacers

\* The second run after a first run whose moveIntoLibrary returned an error
\* with files already copied.
RerunPartial == RerunAfter(ret.step = "merge" /\ stats.movedFiles > 0)

NextPartial ==
    \/ ValidateInputs
    \/ SanitizeArtist
    \/ ResolvePixeldrain
    \/ DownloadArchive
    \/ ExtractOpen
    \/ ExtractEntry
    \/ ExtractReturn
    \/ pruneExtracted
    \/ MoveCheck
    \/ MoveEntry
    \/ MoveReturn
    \/ CleanupPath
    \/ Return
    \/ RerunPartial

SpecPartial == InitPartial /\ [][NextPartial]_vars

(***************************************************************************)
(* Two concurrent runs of moveIntoLibrary                                  *)
(***************************************************************************)

\* The staging directory of each run: two names from os.MkdirTemp.
RaceStaging(r) == IF r = 1 THEN StagingDir ELSE TmpBase \o << <<"e", "z">> >>

\* Staged trees, by relative path: TRUE for a file, FALSE for a directory.
RaceTrees ==
    { [q \in {<< <<"a">> >>} |-> TRUE],
      [q \in {<< <<"d">> >>, << <<"d">>, <<"b">> >>} |-> q # << <<"d">> >>],
      [q \in {<< <<"a">> >>, << <<"d">> >>, << <<"d">>, <<"b">> >>} |-> q # << <<"d">> >>],
      [q \in {<< <<"d">> >>} |-> TRUE] }

\* The staged tree t of run r in the file system; the run's files hold the
\* bytes r.
RaceStaged(r, t) ==
    [p \in {RaceStaging(r)} \cup {RaceStaging(r) \o q : q \in DOMAIN t} |->
        IF p = RaceStaging(r) THEN DirNode
        ELSE IF t[Rel(RaceStaging(r), p)] THEN FileNode(r, DefaultFileMode)
        ELSE DirNode]

\* The artist directory before the race: absent, empty, or holding a file.
RaceDestPool ==
    { EmptyFs,
      [p \in {Dest} |-> DirNode],
      [p \in {Dest, Dest \o << <<"a">> >>} |->
          IF p = Dest THEN DirNode ELSE FileNode(9, DefaultFileMode)] }

\* Both runs have extracted and pruned and are about to call
\* moveIntoLibrary; the variables of the single run are not used.
InitRace ==
    /\ \E d \in RaceDestPool, t1 \in RaceTrees, t2 \in RaceTrees :
          fs = Extend(Extend(Extend(BaseFs, d), RaceStaged(1, t1)), RaceStaged(2, t2))
    /\ racers = [r \in Racers |->
                    [pc |-> "check", mi |-> 0, ret |-> "nil", passed |-> FALSE,
                     clobbered |-> {}, lost |-> {}]]
    /\ opts = [Artist |-> <<"x">>, URL |-> [form |-> "id", host |-> "", idOk |-> TRUE],
               TmpDir |-> "", KeepTemp |-> FALSE, DryRun |-> FALSE]
    /\ patterns = <<>>
    /\ pc = "moveCheck"
    /\ ret = NoError
    /\ artistDir = <<"x">>
    /\ zip = NoZip
    /\ archivePath = NoPath
    /\ destDir = NoPath
    /\ ei = 0
    /\ extractDir = NoPath
    /\ mi = 0
    /\ deferred = <<>>
    /\ stats = [downloadBytes |-> 0, extractedEntries |-> 0, pruned |-> 0, movedFiles |-> 0]
    /\ ioFailed = FALSE
    /\ cleanupFailed = {}
    /\ fs0 = fs
    /\ fsE = EmptyFs
    /\ fsX = EmptyFs
    /\ fsP = EmptyFs
    /\ calls = <<>>
    /\ prev = NoPrev

\* The variables a racing run leaves alone.
runVars == <<opts, patterns, pc, ret, artistDir, zip, archivePath, destDir, ei, extractDir,
             mi, deferred, stats, ioFailed, cleanupFailed, fs0, fsE, fsX, fsP, calls, prev>>

\* A run returns from moveIntoLibrary with an error.
RaceFail(r, kind) == racers' = [racers EXCEPT ![r].pc = "done", ![r].ret = kind]

\* moveIntoLibrary of run r up to the dry-run test.
RaceCheck ==
    \E r \in Racers :
        /\ racers[r].pc = "check"
        /\ LET c == ensureNoCollisions(fs, RaceStaging(r), destinationPath)
           IN  IF c # "nil" THEN RaceFail(r, c)
               ELSE IF moveDryRun(opts)
               THEN racers' = [racers EXCEPT ![r].pc = "done", ![r].passed = TRUE]
               ELSE racers' = [racers EXCEPT ![r].pc = "mkdir", ![r].passed = TRUE]
        /\ UNCHANGED fs
        /\ UNCHANGED runVars

\* os.MkdirAll(dest) of run r.
RaceMkdir ==
    \E r \in Racers :
        /\ racers[r].pc = "mkdir"
        /\ IF MkdirAllOk(fs, destinationPath)
           THEN /\ fs' = MkdirAll(fs, destinationPath)
                /\ racers' = [racers EXCEPT ![r].pc = "walk", ![r].mi = 1]
           ELSE RaceFail(r, "io") /\ UNCHANGED fs
        /\ UNCHANGED runVars

\* One call of the callback of the walk of run r: a directory is created;
\* for a file, copyFile opens the target (it is created, or truncated when
\* it is there already).  `clobbered` records the targets the run found
\* existing, `lost` those that held bytes.
RaceEntry ==
    \E r \in Racers :
        /\ racers[r].pc = "walk"
        /\ racers[r].mi <= Len(WalkDir(fs, RaceStaging(r)))
        /\ LET p      == WalkDir(fs, RaceStaging(r))[racers[r].mi]
               rel    == Rel(RaceStaging(r), p)
               target == JoinPath(destinationPath, RelSlash(RaceStaging(r), p))
               parent == Front(target)
           IN  IF IsDir(fs, p)
               THEN IF MkdirAllOk(fs, target)
                    THEN /\ fs' = MkdirAll(fs, target)
                         /\ racers' = [racers EXCEPT ![r].mi = @ + 1]
                    ELSE RaceFail(r, "io") /\ UNCHANGED fs
               ELSE IF ~MkdirAllOk(fs, parent)
               THEN RaceFail(r, "io") /\ UNCHANGED fs
               ELSE LET withParent == MkdirAll(fs, parent) IN
                    IF ~OpenTruncOk(withParent, target)
                    THEN RaceFail(r, "io") /\ fs' = withParent
                    ELSE /\ fs' = OpenTrunc(withParent, target, fs[p].mode)
                         /\ racers' = [racers EXCEPT
                                ![r].pc = "copy",
                                ![r].clobbered = IF IsFile(fs, target) THEN @ \cup {rel} ELSE @,
                                ![r].lost = IF IsFile(fs, target) /\ fs[target].content # 0
                                            THEN @ \cup {rel} ELSE @]
        /\ UNCHANGED runVars

\* io.Copy of copyFile in run r: the bytes of the staged file are written to
\* the target it opened.
RaceCopy ==
    \E r \in Racers :
        /\ racers[r].pc = "copy"
        /\ LET p      == WalkDir(fs, RaceStaging(r))[racers[r].mi]
               target == JoinPath(destinationPath, RelSlash(RaceStaging(r), p))
           IN  fs' = WriteAll(fs, target, fs[p].content)
        /\ racers' = [racers EXCEPT ![r].pc = "walk", ![r].mi = @ + 1]
        /\ UNCHANGED runVars

\* The walk of run r is over: moveIntoLibrary returns nil.
RaceReturn ==
    \E r \in Racers :
        /\ racers[r].pc = "walk"
        /\ racers[r].mi > Len(WalkDir(fs, RaceStaging(r)))
        /\ racers' = [racers EXCEPT ![r].pc = "done"]
        /\ UNCHANGED fs
        /\ UNCHANGED runVars

NextRace ==
    \/ RaceCheck
    \/ RaceMkdir
    \/ RaceEntry
    \/ RaceCopy
    \/ RaceReturn

SpecRace == InitRace /\ [][NextRace]_vars

(***************************************************************************)
(* sanitizeArtist on its own                                               *)
(***************************************************************************)

\* Longest artist label given to sanitizeArtist.
MaxLabelLen == 4

\* The characters of the labels: a letter, the dot, both separators, a space.
LabelChars == {"a", ".", "/", "\\", " "}

Labels == SeqsUpTo(LabelChars, MaxLabelLen)

\* Execute is about to call sanitizeArtist on a label of any shape.
InitSanitize ==
    /\ opts \in [Artist : Labels, URL : {[form |-> "id", host |-> "", idOk |-> TRUE]},
                 TmpDir : {""}, KeepTemp : {FALSE}, DryRun : {FALSE}]
    /\ pc = "sanitize"
    /\ fs = BaseFs
    /\ patterns = <<>>
    /\ ret = NoError
    /\ artistDir = <<>>
    /\ zip = NoZip
    /\ archivePath = NoPath
    /\ destDir = NoPath
    /\ ei = 0
    /\ extractDir = NoPath
    /\ mi = 0
    /\ deferred = <<>>
    /\ stats = [downloadBytes |-> 0, extractedEntries |-> 0, pruned |-> 0, movedFiles |-> 0]
    /\ ioFailed = FALSE
    /\ cleanupFailed = {}
    /\ fs0 = fs
    /\ fsE = EmptyFs
    /\ fsX = EmptyFs
    /\ fsP = EmptyFs
    /\ calls = <<>>
    /\ prev = NoPrev
    /\ racers = NoRacers

NextSanitize ==
    \/ SanitizeArtist
    \/ Return

SpecSanitize == InitSanitize /\ [][NextSanitize]_vars

(***************************************************************************)
(* Vocabulary of the properties                                            *)
(***************************************************************************)

Range(q) == {q[i] : i \in 1..Len(q)}

Called(step) == step \in Range(calls)

\* The step has been called and has returned.
Returned(step) == Called(step) /\ (Last(calls) # step \/ pc \in {"cleanup", "done"})

\* The library: everything at or below the music path.
LibTree(f) == Restrict(f, {p \in DOMAIN f : IsPrefix(MusicPath, p)})

\* The tree below a directory, by relative path.
TreeAt(f, root) == [r \in {Rel(root, p) : p \in Under(f, root)} |-> f[root \o r]]

\* The relative paths present in the staged tree and in the destination.
SharedPaths(f) == DOMAIN TreeAt(f, StagingDir) \cap DOMAIN TreeAt(f, Dest)

\* A shared path that is not a directory on both sides.
Conflicts(f) ==
    {r \in SharedPaths(f) : ~(IsDir(f, StagingDir \o r) /\ IsDir(f, Dest \o r))}

\* A pattern of the list matches the relative path.
Matched(pats, r) == \E i \in 1..Len(pats) : Match(pats[i], JoinSegs(r))

\* The relative path is matched, or lies below a matched path.
Pruned(pats, r) == \E n \in 1..Len(r) : Matched(pats, SubSeq(r, 1, n))

StagedFiles(f) == {r \in DOMAIN TreeAt(f, StagingDir) : IsFile(f, StagingDir \o r)}

\* An entry name whose cleaned form is absolute or starts with "..".
UnsafeName(name) ==
    LET c == Clean(name)
    IN  c[1] = "/" \/ (Len(c) >= 2 /\ c[1] = "." /\ c[2] = ".")

HasUnsafeEntry(z) == \E i \in 1..Len(z.entries) : UnsafeName(z.entries[i].name)

(***************************************************************************)
(* Properties                                                              *)
(***************************************************************************)

\* C1: when some relative path of the staged tree exists in the destination
\* and is not a directory on both sides (file-vs-file, staged file vs
\* destination directory, staged directory vs destination file),
\* moveIntoLibrary never reaches its copying walk, returns an error, and the
\* library tree stays exactly as it was at the call; in both modes.
C1_CollisionAbortsMerge ==
    (Called("merge") /\ Conflicts(fsP) # {}) =>
        /\ pc # "moveWalk"
        /\ ret.step = "merge"
        /\ LibTree(fs) = LibTree(fsP)

\* C1 witness: the three kinds of conflict, each met by a merge that has
\* returned its error, here a dry run on a staged directory over a
\* destination file.
C1_Witness ==
    /\ pc = "done"
    /\ opts.DryRun
    /\ ret = Error("merge", "collision")
    /\ \E r \in Conflicts(fsP) : IsDir(fsP, StagingDir \o r) /\ IsFile(fsP, Dest \o r)

\* C2: when the staged tree holds a file and every staged file is matched or
\* lies below a matched directory, pruneExtracted returns an error and the
\* file system is as it was at the call; in both modes.
C2_PruneGuardKeepsTree ==
    (Returned("prune") /\ StagedFiles(fsX) # {}
        /\ \A r \in StagedFiles(fsX) : Pruned(patterns, r)) =>
        /\ ret.step = "prune"
        /\ fsP = fsX

\* C2 witness: a normal-mode run whose only staged file lies below a matched
\* directory that is not itself a file match.
C2_Witness ==
    /\ Returned("prune")
    /\ ~opts.DryRun
    /\ ret = Error("prune", "guard")
    /\ \E r \in StagedFiles(fsX) : ~Matched(patterns, r) /\ Pruned(patterns, r)

\* C3: an archive with an entry whose cleaned name is absolute or starts
\* with ".." never yields a staging directory (extractArchive returns an
\* error), and from the call of extractArchive on, every file or directory
\* outside the staging directory was there at the call, unchanged.
C3_UnsafeEntryRejected ==
    (Called("extract") /\ zip.valid /\ HasUnsafeEntry(zip)) =>
        /\ extractDir = NoPath
        /\ pc \in {"extractOpen", "extractEntry", "cleanup", "done"}
        /\ pc \in {"cleanup", "done"} => ret.step = "extract"
        /\ \A p \in DOMAIN fs :
              ~IsPrefix(StagingDir, p) => (p \in DOMAIN fsE /\ fs[p] = fsE[p])

\* C3 witness: extraction stopped at an unsafe second entry after the first
\* entry was written inside the staging directory.
C3_Witness ==
    /\ ret = Error("extract", "unsafe")
    /\ ei = 2
    /\ UnsafeName(zip.entries[2].name)
    /\ \E p \in Under(fs, StagingDir) : IsFile(fs, p)

\* C4: with keep-temp off, once extractArchive has returned a staging
\* directory, nothing is left at or below it when Execute returns, whatever
\* the outcome of pruning and merging; stated for the runs in which
\* os.RemoveAll on that directory did not itself fail (cleanupPath only logs
\* such a failure).
C4_StagingRemovedOnReturn ==
    (pc = "done" /\ ~opts.KeepTemp /\ extractDir # NoPath /\ extractDir \notin cleanupFailed) =>
        \A p \in DOMAIN fs : ~IsPrefix(extractDir, p)

\* C4 witness: a run whose merge failed with an I/O error after files were
\* staged, and whose staging directory is gone.
C4_Witness ==
    /\ pc = "done"
    /\ ~opts.KeepTemp
    /\ ret = Error("merge", "io")
    /\ StagedFiles(fsP) # {}
    /\ extractDir = StagingDir
    /\ StagingDir \notin DOMAIN fs

\* C5 (the claim as stated): with keep-temp off, when extractArchive fails
\* after it created the staging directory, that directory no longer exists
\* when Execute returns.
C5_PartialStagingRemoved ==
    (pc = "done" /\ ~opts.KeepTemp /\ ret.step = "extract" /\ destDir # NoPath) =>
        destDir \notin DOMAIN fs

\* The bytes the archive holds for a file path: those of its last file entry
\* with that cleaned name (a later entry truncates and rewrites the file).
ArchiveFilePaths(z) ==
    {Split(Clean(z.entries[i].name)) :
        i \in {j \in 1..Len(z.entries) : ~z.entries[j].isDir /\ Clean(z.entries[j].name) # Dot}}

ArchiveContent(z, r) ==
    LET at == {i \in 1..Len(z.entries) :
                  ~z.entries[i].isDir /\ Split(Clean(z.entries[i].name)) = r}
    IN  z.entries[CHOOSE i \in at : \A j \in at : j <= i].content

\* C6: in a dry run the library tree is at every point what it was when
\* Execute was called, pruneExtracted leaves the file system as it found it,
\* and extraction has happened: every entry of the archive is in the staging
\* directory when extractArchive returns, files with the archive's bytes.
C6_DryRunLeavesDestination ==
    opts.DryRun =>
        /\ LibTree(fs) = LibTree(fs0)
        /\ Returned("prune") => fsP = fsX
        /\ extractDir # NoPath =>
              \A i \in 1..Len(zip.entries) :
                 LET f == zip.entries[i]
                     r == Split(Clean(f.name))
                 IN  Clean(f.name) # Dot =>
                        /\ StagingDir \o r \in DOMAIN fsX
                        /\ IF f.isDir THEN IsDir(fsX, StagingDir \o r)
                           ELSE /\ IsFile(fsX, StagingDir \o r)
                                /\ fsX[StagingDir \o r].content = ArchiveContent(zip, r)

\* C6 witness: a dry run that returned nil although a pattern matched a
\* staged file and the destination directory did not exist.
C6_Witness ==
    /\ pc = "done"
    /\ opts.DryRun
    /\ ret = NoError
    /\ stats.pruned > 0
    /\ StagedFiles(fsX) # {}
    /\ Dest \notin DOMAIN fs0

\* The library after a merge of the staged tree of f that only adds.
ExpectedMerge(f) ==
    LET staged == TreeAt(f, StagingDir)
        added  == [p \in {Dest \o r : r \in DOMAIN staged} |-> staged[Rel(Dest, p)]]
    IN  Extend(Extend([p \in {Dest} |-> DirNode], added), LibTree(f))

\* C7: a normal-mode merge without conflict and without I/O failure returns
\* nil, and the library is then what it was at the call plus the destination
\* root, plus every staged directory, plus every staged file with its bytes
\* and mode; nothing that was there is changed or removed, nothing else is
\* added.
C7_MergeOnlyAdds ==
    (Returned("merge") /\ ~opts.DryRun /\ Conflicts(fsP) = {} /\ ~ioFailed) =>
        /\ ret = NoError
        /\ LibTree(fs) = ExpectedMerge(fsP)

\* C7 witness: a merge into a populated destination that added a file.
C7_Witness ==
    /\ pc = "done"
    /\ ~opts.DryRun
    /\ ret = NoError
    /\ Called("merge")
    /\ \E p \in Under(fsP, Dest) : IsFile(fsP, p)
    /\ \E r \in StagedFiles(fsP) : IsFile(fs, Dest \o r)

\* The files the round trip must leave at the destination: the file entries
\* of the archive that are not matched and lie below no matched path.
ExpectedDestFiles(z, pats) ==
    [r \in {q \in ArchiveFilePaths(z) : ~Pruned(pats, q)} |-> ArchiveContent(z, r)]

DestFiles(f) ==
    [r \in {q \in DOMAIN TreeAt(f, Dest) : IsFile(f, Dest \o q)} |-> f[Dest \o r].content]

DestAbsentOrEmpty(f) == Under(f, Dest) = {} /\ ~IsFile(f, Dest)

\* C8: a normal-mode run into an absent or empty destination that meets no
\* I/O failure and does not trip the guard returns nil, and the files under
\* the destination are then exactly the surviving file entries of the
\* archive, each with the archive's bytes; no matched path and nothing below
\* a matched path is there.
C8_RoundTrip ==
    (~opts.DryRun /\ DestAbsentOrEmpty(fs0)) =>
        /\ (Returned("merge") /\ ~ioFailed) => ret = NoError
        /\ (pc \in {"cleanup", "done"} /\ ret = NoError) =>
              /\ DestFiles(fs) = ExpectedDestFiles(zip, patterns)
              /\ \A r \in DOMAIN TreeAt(fs, Dest) : ~Pruned(patterns, r)

\* C8 witness: a run that pruned a file lying below a matched directory and
\* delivered another file.
C8_Witness ==
    /\ pc = "done"
    /\ ~opts.DryRun
    /\ ret = NoError
    /\ Dest \notin DOMAIN fs0
    /\ \E r \in ArchiveFilePaths(zip) : Pruned(patterns, r) /\ ~Matched(patterns, r)
    /\ DOMAIN DestFiles(fs) # {}

C11_PruneRemovesMatchedSubtrees ==
    (Returned("prune") /\ ~opts.DryRun /\ ret.step # "prune") =>
        /\ \A r \in DOMAIN TreeAt(fsX, StagingDir) :
              IF Pruned(patterns, r)
              THEN StagingDir \o r \notin DOMAIN fsP
              ELSE IsFile(fsX, StagingDir \o r) =>
                      /\ StagingDir \o r \in DOMAIN fsP
                      /\ fsP[StagingDir \o r] = fsX[StagingDir \o r]
        /\ StagedFiles(fsX) # {} => StagedFiles(fsP) # {}

\* C11 witness: a normal-mode prune that removed a matched directory with
\* the file below it and kept another file.
C11_Witness ==
    /\ Returned("prune")
    /\ ~opts.DryRun
    /\ ret.step # "prune"
    /\ \E r \in DOMAIN TreeAt(fsX, StagingDir) :
          /\ IsDir(fsX, StagingDir \o r)
          /\ Matched(patterns, r)
          /\ \E q \in StagedFiles(fsX) : Len(q) > Len(r) /\ SubSeq(q, 1, Len(r)) = r
    /\ StagedFiles(fsP) # {}

\* The steps of Execute, in the order of its body.
StepOrder == <<"validate", "sanitize", "resolve", "download", "extract", "prune", "merge">>

\* C12: the steps Execute has called are always an initial part of validate,
\* sanitize, resolve, download, extract, prune, merge (so each runs at most
\* once and in that order); an error is the error of the last step called
\* (no step runs after a failing one); and the library differs from what it
\* was at the call of Execute only when merge was reached, which needs
\* validation, extraction and pruning to have returned nil, and the collision
\* check found no conflict.
C12_StepsInOrder ==
    /\ Len(calls) <= Len(StepOrder)
    /\ calls = SubSeq(StepOrder, 1, Len(calls))
    /\ ret # NoError => (pc \in {"cleanup", "done"} /\ ret.step = Last(calls))
    /\ LibTree(fs) # LibTree(fs0) =>
          /\ Called("merge")
          /\ validateInputs(opts) = "nil"
          /\ extractDir # NoPath
          /\ Returned("prune")
          /\ ret.step \notin {"validate", "extract", "prune"}
          /\ Conflicts(fsP) = {}

\* C12 witness: pruning failed on the safety guard and merge was never
\* called.
C12_Witness ==
    /\ pc = "done"
    /\ ret.step = "prune"
    /\ ret.kind = "guard"
    /\ calls = SubSeq(StepOrder, 1, 6)
    /\ LibTree(fs) = LibTree(fs0)

\* C13: the error of Execute is set once, by the step that is running, and
\* names that step; from then on no step is called and the error is never
\* changed; a deferred cleanupPath call, failing or not, leaves the result
\* of Execute as it was (nil stays nil).
C13_FirstErrorReturned ==
    [][ /\ ret' # ret => (ret = NoError /\ pc \notin {"cleanup", "done"} /\ ret'.step = Last(calls'))
        /\ ret # NoError => (ret' = ret /\ calls' = calls)
        /\ pc \in {"cleanup", "done"} => ret' = ret
        /\ cleanupFailed' # cleanupFailed => ret' = ret ]_vars

\* C13 witness: the run failed at pruning and the removal of the staging
\* directory then failed too; the error returned is still that of pruning.
C13_Witness ==
    /\ pc = "done"
    /\ ret.step = "prune"
    /\ StagingDir \in cleanupFailed
    /\ Last(calls) = "prune"

\* C14 (the claim as stated): a dry run without conflict in which a pattern
\* matched and a staged file is left to move reports a pruned count and a
\* moved count that are both above zero, and does not create the
\* destination directory.
C14_DryRunCountsNonZero ==
    (pc = "done" /\ opts.DryRun /\ ret = NoError /\ Dest \notin DOMAIN fs0
        /\ PruneMatches(fsX, StagingDir, patterns) # {}
        /\ \E r \in StagedFiles(fsX) : ~Pruned(patterns, r)) =>
        /\ stats.pruned > 0
        /\ stats.movedFiles > 0
        /\ Dest \notin DOMAIN fs

\* C17 (the claim as stated): with keep-temp off, neither the download
\* directory nor the archive in it exists when Execute returns.
C17_DownloadDirRemoved ==
    (pc = "done" /\ ~opts.KeepTemp /\ cleanupFailed = {}) =>
        \A p \in DOMAIN fs : ~IsPrefix(DownloadDir, p)

\* C18: with keep-temp set no deferred cleanupPath call changes the file
\* system, and from the moment they exist to the return of Execute the
\* downloaded archive is a file with its bytes and the staging directory is
\* a directory (its content is what extraction and pruning left).
C18_KeepTempKeepsEverything ==
    /\ [](opts.KeepTemp =>
            /\ archivePath # NoPath => (IsFile(fs, archivePath) /\ fs[archivePath].content = 1)
            /\ destDir # NoPath => IsDir(fs, destDir)
            /\ (Returned("prune") /\ pc \in {"cleanup", "done"}) =>
                  TreeAt(fs, StagingDir) = TreeAt(fsP, StagingDir))
    /\ [][(opts.KeepTemp /\ pc \in {"cleanup", "done"}) => fs' = fs]_vars

\* C18 witness: a keep-temp run that failed at the merge and returned with
\* the archive and the staged files still in place.
C18_Witness ==
    /\ pc = "done"
    /\ opts.KeepTemp
    /\ ret.step = "merge"
    /\ IsFile(fs, ArchiveFile)
    /\ StagedFiles(fs) # {}
    /\ Len(deferred) = 0

\* C15: in the second of two normal-mode runs with the same archive,
\* patterns and artist label, when no file-system operation failed in either
\* run and the first run got its archive, the library is at every point what
\* the first run left; and when the first run copied a file, the second run,
\* once it has the archive again, returns the collision error.
C15_SecondRunChangesNothing ==
    (prev.ran /\ ~opts.DryRun /\ ~ioFailed /\ prev.downloaded) =>
        /\ LibTree(fs) = LibTree(fs0)
        /\ (prev.movedFiles > 0 /\ pc = "done" /\ archivePath # NoPath) =>
              (ret.step = "merge" /\ ret.kind = "collision")

\* C15 witness: the first run copied a file into an absent destination and
\* returned nil; the second run has returned the collision error.
C15_Witness ==
    /\ prev.ran
    /\ prev.ret = NoError
    /\ prev.movedFiles > 0
    /\ ~opts.DryRun
    /\ ~ioFailed
    /\ pc = "done"
    /\ ret.step = "merge"
    /\ ret.kind = "collision"
    /\ \E r \in StagedFiles(fsP) : IsFile(fs0, Dest \o r)

\* The relative paths a racing run has staged as files, as directories.
RaceFiles(r) == {Rel(RaceStaging(r), p) : p \in {q \in Under(fs, RaceStaging(r)) : IsFile(fs, q)}}

RaceDirs(r) == {Rel(RaceStaging(r), p) : p \in {q \in Under(fs, RaceStaging(r)) : IsDir(fs, q)}}

\* C16: when both concurrent runs passed the collision check (so neither
\* check saw what the other run copies) and no path is a file of one run and
\* a directory of the other, neither run returns an error; and once both
\* have returned, every file both staged at the same relative path was
\* found existing and truncated by exactly one of the runs (the other had
\* created it), and holds the bytes of one of the two runs.
C16_ConcurrentRunsOverwrite ==
    ((\A r \in Racers : racers[r].passed)
        /\ RaceFiles(1) \cap RaceDirs(2) = {} /\ RaceFiles(2) \cap RaceDirs(1) = {}) =>
        /\ \A r \in Racers : racers[r].ret = "nil"
        /\ (\A r \in Racers : racers[r].pc = "done") =>
              \A q \in RaceFiles(1) \cap RaceFiles(2) :
                 /\ \E r \in Racers :
                       q \in racers[r].clobbered /\ q \notin racers[3 - r].clobbered
                 /\ fs[Dest \o q].content \in Racers

\* C16 witness: both runs staged a file at the same path, the destination
\* did not exist, both runs have returned nil, and one of them truncated the
\* file when it held the bytes of the other and wrote its own.
C16_Witness ==
    /\ Dest \notin DOMAIN fs0
    /\ \A r \in Racers : racers[r].pc = "done" /\ racers[r].ret = "nil" /\ racers[r].passed
    /\ \E q \in RaceFiles(1) \cap RaceFiles(2), r \in Racers :
          q \in racers[r].lost /\ fs[Dest \o q].content = r

\* C19: whenever sanitizeArtist returns a value, the value is not empty,
\* holds neither "/" nor "\", is neither "." nor "..", and the destination
\* path made of it is the library root followed by that one segment.
C19_SanitizedIsOneSegment ==
    (Called("sanitize") /\ ret = NoError) =>
        /\ artistDir # <<>>
        /\ \A i \in 1..Len(artistDir) : artistDir[i] \notin {"/", "\\"}
        /\ artistDir # <<".">>
        /\ artistDir # <<".", ".">>
        /\ destinationPath = Append(MusicPath, artistDir)

\* C19 witness: a label with both separators in it was accepted.
C19_Witness ==
    /\ Called("sanitize")
    /\ ret = NoError
    /\ \E i \in 1..Len(opts.Artist) : opts.Artist[i] = "/"
    /\ \E i \in 1..Len(opts.Artist) : opts.Artist[i] = "\\"
    /\ \E i \in 1..Len(artistDir) : artistDir[i] = "_"

\* The label without the white space around it, normalised by
\* filepath.Clean, as a list of segments.
NormalSegs(label) == Split(Clean(TrimSpace(label)))

\* A label that is empty or white space only, "." or "..", or normalises to
\* an absolute path or to a path whose first segment is "..".
BadLabel(label) ==
    \/ \A i \in 1..Len(label) : label[i] = " "
    \/ label \in {<<".">>, <<".", ".">>}
    \/ Head(Clean(TrimSpace(label))) = "/"
    \/ Head(NormalSegs(label)) = <<".", ".">>

\* C20: for every such label sanitizeArtist returns an error and no value.
C20_BadLabelRejected ==
    (Called("sanitize") /\ BadLabel(opts.Artist)) =>
        /\ ret.step = "sanitize"
        /\ artistDir = <<>>

\* C20 witness: a label that is none of "", "." and ".." but normalises to a
\* path below "..", rejected.
C20_Witness ==
    /\ pc = "done"
    /\ ret.step = "sanitize"
    /\ Len(NormalSegs(opts.Artist)) = 2
    /\ Head(NormalSegs(opts.Artist)) = <<".", ".">>
    /\ artistDir = <<>>

\* A label that, without the white space around it, is not empty, holds no
\* separator and is neither "." nor "..".
PlainLabel(label) ==
    LET t == TrimSpace(label)
    IN  /\ t # <<>>
        /\ \A i \in 1..Len(t) : t[i] \notin {"/", "\\"}
        /\ t \notin {<<".">>, <<".", ".">>}

\* C21 (the claim as stated): every such label is accepted by sanitizeArtist
\* and returned as trimmed, character for character.
C21_PlainLabelUnchanged ==
    (Called("sanitize") /\ PlainLabel(opts.Artist)) =>
        /\ ret = NoError
        /\ artistDir = TrimSpace(opts.Artist)

\* C22: when a normal-mode moveIntoLibrary has returned nil, the moved-files
\* counter is the number of files of the staged tree (directories are not
\* counted, no file is counted twice), and each of them is a file of the
\* destination.
C22_MovedFilesCounted ==
    (Returned("merge") /\ ~opts.DryRun /\ ret = NoError) =>
        /\ stats.movedFiles = Cardinality(StagedFiles(fsP))
        /\ \A r \in StagedFiles(fsP) : IsFile(fs, Dest \o r)

\* C22 witness: a merge of two files, one of them in a staged directory,
\* that returned nil.
C22_Witness ==
    /\ pc = "done"
    /\ ~opts.DryRun
    /\ ret = NoError
    /\ stats.movedFiles = 2
    /\ \E r \in DOMAIN TreeAt(fsP, StagingDir) : IsDir(fsP, StagingDir \o r)

\* The matched relative paths of the staged tree that lie below no matched
\* directory.
TopMatched(f, pats) ==
    {r \in DOMAIN TreeAt(f, StagingDir) :
        /\ Matched(pats, r)
        /\ ~ \E n \in 1..(Len(r) - 1) : Matched(pats, SubSeq(r, 1, n))}

\* C23 (the claim as stated): the pruned count that pruneExtracted reports
\* counts a matched directory once and none of its descendants, whether or
\* not a pattern matches them too.
C23_DescendantsNotCounted ==
    (Returned("prune") /\ ret.step # "prune") =>
        stats.pruned = Cardinality(TopMatched(fsX, patterns))

\* C24: when pruneExtracted has returned nil, in either mode, the pruned
\* count is the number of staged paths that a pattern matches (so a dry-run
\* call and a normal call on the same tree and patterns report the same
\* count), and the dry-run call has left the file system as it found it.
C24_DryRunCountsTheSame ==
    (Returned("prune") /\ ret.step # "prune") =>
        /\ stats.pruned =
              Cardinality({r \in DOMAIN TreeAt(fsX, StagingDir) : Matched(patterns, r)})
        /\ opts.DryRun => fsP = fsX

\* C24 witness: a dry-run call that reported two matched paths, a directory
\* and the file in it, and removed neither.
C24_Witness ==
    /\ Returned("prune")
    /\ opts.DryRun
    /\ ret.step # "prune"
    /\ stats.pruned = 2
    /\ fsP = fsX
    /\ \E r \in StagedFiles(fsP) : Matched(patterns, r) /\ Len(r) = 2

\* C25: when the downloaded archive cannot be opened or holds no entry,
\* extractArchive returns that error without a staging directory, and none
\* exists from then on, whatever the keep-temp flag.
C25_BadArchiveLeavesNoStaging ==
    (Called("extract") /\ (~zip.valid \/ Len(zip.entries) = 0)) =>
        /\ ret.step = "extract"
        /\ ret.kind = (IF zip.valid THEN "empty" ELSE "open")
        /\ destDir = NoPath
        /\ \A p \in DOMAIN fs : ~IsPrefix(StagingDir, p)

\* C25 witness: a keep-temp run on an archive without entries has returned.
C25_Witness ==
    /\ pc = "done"
    /\ opts.KeepTemp
    /\ zip.valid
    /\ Len(zip.entries) = 0
    /\ ret.kind = "empty"
    /\ IsFile(fs, ArchiveFile)
    /\ StagingDir \notin DOMAIN fs

\* The conflicts a normal run meets: those on staged paths that pruning
\* does not remove.
UnprunedConflicts(f, pats) == {r \in Conflicts(f) : ~Pruned(pats, r)}

\* C26 (the claim as stated): a dry run that got as far as the merge
\* returns nil exactly when a normal run on the same archive, patterns and
\* destination would (no conflict on a path that survives pruning, and a
\* destination that is not a file), and a collision it reports is never on
\* staged paths that a normal run would all have pruned.
C26_DryRunPredictsNormalRun ==
    (pc = "done" /\ opts.DryRun /\ ~ioFailed /\ Called("merge")) =>
        /\ (ret = NoError) <=> (UnprunedConflicts(fsX, patterns) = {} /\ ~IsFile(fsX, Dest))
        /\ ret.kind = "collision" => UnprunedConflicts(fsX, patterns) # {}

\* The staged files that are files of the destination with the same bytes.
CopiedFiles(f, staged) ==
    {r \in StagedFiles(staged) :
        IsFile(f, Dest \o r) /\ f[Dest \o r].content = staged[StagingDir \o r].content}

\* C27: a normal-mode merge that has ended after copying a file and before
\* the end of its walk has returned an I/O error, every file it counted as
\* copied is in the destination with its bytes, and everything the library
\* held at the call is still there unchanged; in the next run with the same
\* inputs the library stays what that merge left, at every point, and
\* moveIntoLibrary, when reached, returns the collision error.
C27_PartialMergeStays ==
    /\ (pc \in {"cleanup", "done"} /\ ~opts.DryRun /\ ret.step = "merge" /\ stats.movedFiles > 0) =>
          /\ ret.kind = "io"
          /\ Cardinality(CopiedFiles(fs, fsP)) >= stats.movedFiles
          /\ \A p \in DOMAIN LibTree(fsP) : p \in DOMAIN fs /\ fs[p] = fsP[p]
    /\ (prev.ran /\ prev.ret.step = "merge" /\ prev.movedFiles > 0) =>
          /\ LibTree(fs) = LibTree(fs0)
          /\ Returned("merge") => (ret.step = "merge" /\ ret.kind = "collision")

\* C27 witness: the first run copied one of two files and failed; the second
\* run has returned the collision error, the file copied and the file that
\* was in the destination before both still in place.
C27_Witness ==
    /\ prev.ran
    /\ prev.ret.step = "merge"
    /\ prev.ret.kind = "io"
    /\ prev.movedFiles = 1
    /\ pc = "done"
    /\ ret.step = "merge"
    /\ ret.kind = "collision"
    /\ Cardinality(StagedFiles(fsP)) = 2
    /\ \E r \in StagedFiles(fsP) : IsFile(fs, Dest \o r) /\ fs[Dest \o r].content # 9
    /\ \E p \in Under(fs, Dest) : IsFile(fs, p) /\ fs[p].content = 9

====
